---- MODULE Spec2Model ----
(***************************************************************************)
(* The Valuation view of the stock diary (src/unnamed/part_002, lines      *)
(* 475-999): the twelve editable inputs, the memoised calculation of the   *)
(* fourteen outputs, and the Edit / onChange / Save / Reset handlers.      *)
(*                                                                         *)
(* Numbers.  A JavaScript number is modelled as a record [n, d]:           *)
(*   d > 0          the finite value n/d, in lowest terms;                 *)
(*   d = 0, n = 1   +Infinity;   d = 0, n = -1   -Infinity;                *)
(*   d = 0, n = 0   NaN.                                                   *)
(* Arithmetic on finite values is exact, except that a root that is not    *)
(* rational is rounded down to RootDigits decimal digits (Math.pow rounds  *)
(* it to a double).  The special values follow IEEE-754 as JavaScript      *)
(* defines them.  Zero is unsigned: the only unguarded zero denominator of *)
(* the calculation is a power of 1 + expectedReturn/100, which is never -0.*)
(* Overflow of a finite double to Infinity is outside the bounded inputs.  *)
(***************************************************************************)
EXTENDS Integers, Sequences, FiniteSets, TLC

\* the Valuation view
VARIABLES stock, valuation, editing, calculations, edits

\* the ai-command endpoint: the rows of a table it writes and the
\* authenticated user of the request
VARIABLES rows, user

\* the business_overviews rows of one stock of one user, and the section
\* saves of StockContext that are under way; the financials rows of the stock
\* and the user, and the call of updateFinancials that is under way
VARIABLES business_overviews, saves, financials, finSave

\* one use of the useAutoSave hook: its props, its refs, the onSave call under
\* way and the data of the last onSave call; the timers that are pending and
\* the time since the data last changed; the latest toast of the hook and
\* the risk data the risks table holds
VARIABLES enabled, data, previousDataRef, timeoutRef, isSavingRef, inFlight,
          lastSaveArg, timers, quiet, toast, risks

viewVars == <<stock, valuation, editing, calculations, edits>>

aiVars == <<rows, user>>

storeVars == <<business_overviews, saves, financials, finSave>>

hookVars ==
  <<enabled, data, previousDataRef, timeoutRef, isSavingRef, inFlight, lastSaveArg,
    timers, quiet, toast, risks>>

\* everything outside the Valuation view
backend == <<aiVars, storeVars, hookVars>>

vars == <<viewVars, aiVars, storeVars, hookVars>>

(***************************************************************************)
(* Bounds of the model.                                                    *)
(***************************************************************************)
\* the number of onChange events explored in one run of the view
MaxEdits == 2
\* the decimal digits kept of a root that is not rational
RootDigits == 1
\* the financials rows the table is followed up to
MaxFinancialRows == 2
\* the delay of the auto-save (1500 ms), in ticks of the clock
Delay == 1

(***************************************************************************)
(* JavaScript numbers.                                                     *)
(***************************************************************************)
Abs(i) == IF i < 0 THEN -i ELSE i

Sign(i) == IF i < 0 THEN -1 ELSE IF i > 0 THEN 1 ELSE 0

RECURSIVE GCD(_, _)
GCD(a, b) == IF b = 0 THEN a ELSE GCD(b, a % b)

NaN == [n |-> 0, d |-> 0]

Inf(s) == [n |-> s, d |-> 0]

\* the finite number n/d (d # 0) in lowest terms with a positive denominator
Fin(n, d) ==
  LET g == GCD(Abs(n), Abs(d))
  IN  [n |-> Sign(d) * (n \div g), d |-> Abs(d) \div g]

Num(i) == [n |-> i, d |-> 1]

ZERO == Num(0)

ONE == Num(1)

HUNDRED == Num(100)

IsNaN(x) == x.d = 0 /\ x.n = 0

IsInf(x) == x.d = 0 /\ x.n # 0

IsFinite(x) == x.d > 0

IsZero(x) == x.d > 0 /\ x.n = 0

\* a well-formed number: what every arithmetic operation returns
IsNumber(x) ==
  /\ DOMAIN x = {"n", "d"}
  /\ x.n \in Int /\ x.d \in Nat
  /\ x.d = 0 => x.n \in {-1, 0, 1}
  /\ x.d > 0 => GCD(Abs(x.n), x.d) = 1

\* the sign of a number that is not NaN
Sgn(x) == Sign(x.n)

Neg(x) == [n |-> -x.n, d |-> x.d]

\* a * b
Mul(a, b) ==
  IF IsNaN(a) \/ IsNaN(b) THEN NaN
  ELSE IF IsInf(a) \/ IsInf(b)
    THEN IF IsZero(a) \/ IsZero(b) THEN NaN ELSE Inf(Sgn(a) * Sgn(b))
  ELSE LET g1 == GCD(Abs(a.n), b.d)
           g2 == GCD(Abs(b.n), a.d)
       IN  [n |-> (a.n \div g1) * (b.n \div g2), d |-> (a.d \div g2) * (b.d \div g1)]

\* a / b
Div(a, b) ==
  IF IsNaN(a) \/ IsNaN(b) THEN NaN
  ELSE IF IsInf(b) THEN (IF IsInf(a) THEN NaN ELSE ZERO)
  ELSE IF IsZero(b) THEN (IF IsZero(a) THEN NaN ELSE Inf(Sgn(a)))
  ELSE IF IsInf(a) THEN Inf(Sgn(a) * Sgn(b))
  ELSE Mul(a, [n |-> Sgn(b) * b.d, d |-> Abs(b.n)])

\* a + b
Add(a, b) ==
  IF IsNaN(a) \/ IsNaN(b) THEN NaN
  ELSE IF IsInf(a) THEN (IF IsInf(b) /\ b.n # a.n THEN NaN ELSE a)
  ELSE IF IsInf(b) THEN b
  ELSE LET g == GCD(a.d, b.d)
       IN  Fin(a.n * (b.d \div g) + b.n * (a.d \div g), (a.d \div g) * b.d)

\* a - b
Sub(a, b) == Add(a, Neg(b))

\* a > b (false when either is NaN)
Gt(a, b) ==
  IF IsNaN(a) \/ IsNaN(b) THEN FALSE
  ELSE IF IsInf(a) THEN a.n = 1 /\ ~(IsInf(b) /\ b.n = 1)
  ELSE IF IsInf(b) THEN b.n = -1
  ELSE a.n * b.d > b.n * a.d

\* a >= b (false when either is NaN)
Ge(a, b) == Gt(a, b) \/ (~IsNaN(a) /\ a = b)

IsInteger(x) == x.d = 1

IsOdd(x) == x.d = 1 /\ x.n % 2 = 1

\* x^k for a finite x and a natural k, exactly
RECURSIVE IPow(_, _)
IPow(x, k) == IF k = 0 THEN ONE ELSE Mul(x, IPow(x, k - 1))

\* m^q <= N for naturals m, N and q, without forming m^q
RECURSIVE PowLeq(_, _, _)
PowLeq(m, q, N) ==
  IF q = 0 THEN 1 <= N
  ELSE IF m = 0 THEN TRUE
  ELSE PowLeq(m, q - 1, N \div m)

\* the largest r in lo..hi with r^q <= N (lo^q <= N is given)
RECURSIVE RootSearch(_, _, _, _)
RootSearch(N, q, lo, hi) ==
  IF lo >= hi THEN lo
  ELSE LET mid == (lo + hi + 1) \div 2
       IN  IF PowLeq(mid, q, N) THEN RootSearch(N, q, mid, hi)
           ELSE RootSearch(N, q, lo, mid - 1)

\* floor of the q-th root of the natural N
IRoot(N, q) == RootSearch(N, q, 0, N)

\* m^q for naturals
RECURSIVE NatPow(_, _)
NatPow(m, q) == IF q = 0 THEN 1 ELSE m * NatPow(m, q - 1)

\* roots that are not rational are rounded down to a multiple of 1/RootScale
RootScale == NatPow(10, RootDigits)

\* the q-th root of a finite x > 0: exact when x is the q-th power of a
\* rational, rounded down to a multiple of 1/RootScale otherwise
Root(x, q) ==
  LET rn == IRoot(x.n, q)
      rd == IRoot(x.d, q)
  IN  IF NatPow(rn, q) = x.n /\ NatPow(rd, q) = x.d THEN [n |-> rn, d |-> rd]
      ELSE Fin(IRoot((x.n * NatPow(RootScale, q)) \div x.d, q), RootScale)

\* Math.pow(x, y)
Pow(x, y) ==
  IF IsNaN(y) THEN NaN
  ELSE IF IsZero(y) THEN ONE
  ELSE IF IsNaN(x) THEN NaN
  ELSE IF IsInf(y) THEN
    (IF IsInf(x) THEN (IF y.n = 1 THEN Inf(1) ELSE ZERO)
     ELSE IF Abs(x.n) = x.d THEN NaN
     ELSE IF (Abs(x.n) > x.d) = (y.n = 1) THEN Inf(1) ELSE ZERO)
  ELSE IF IsInf(x) THEN
    (IF y.n < 0 THEN ZERO
     ELSE IF x.n = -1 /\ IsOdd(y) THEN Inf(-1) ELSE Inf(1))
  ELSE IF IsZero(x) THEN (IF y.n > 0 THEN ZERO ELSE Inf(1))
  ELSE IF x.n < 0 /\ ~IsInteger(y) THEN NaN
  ELSE LET p == IPow(x, Abs(y.n))
           r == IF y.d = 1 THEN p ELSE Root(p, y.d)
       IN  IF y.n > 0 THEN r ELSE Div(ONE, r)

(***************************************************************************)
(* The text of a number input, as a sequence of characters, and            *)
(* parseFloat.  An <input type="number"> hands the handler either the      *)
(* empty text or a decimal literal, so leading white space and the literal *)
(* "Infinity" are not modelled.                                            *)
(***************************************************************************)
Digits == <<"0", "1", "2", "3", "4", "5", "6", "7", "8", "9">>

IsDigit(c) == \E i \in 1..10 : Digits[i] = c

DigitVal(c) == (CHOOSE i \in 1..10 : Digits[i] = c) - 1

\* the first index from i on that holds no digit
RECURSIVE DigitsEnd(_, _)
DigitsEnd(t, i) ==
  IF i <= Len(t) /\ IsDigit(t[i]) THEN DigitsEnd(t, i + 1) ELSE i

\* the natural number written by the digits t[i], ..., t[j - 1]
RECURSIVE DigitsValue(_, _, _)
DigitsValue(t, i, j) ==
  IF j <= i THEN 0 ELSE DigitsValue(t, i, j - 1) * 10 + DigitVal(t[j - 1])

\* parseFloat(t): the longest prefix of t that is a decimal literal, or NaN
ParseFloat(t) ==
  LET signed == Len(t) >= 1 /\ t[1] \in {"-", "+"}
      sgn == IF signed /\ t[1] = "-" THEN -1 ELSE 1
      start == IF signed THEN 2 ELSE 1
      intEnd == DigitsEnd(t, start)
      hasDot == intEnd <= Len(t) /\ t[intEnd] = "."
      fracEnd == IF hasDot THEN DigitsEnd(t, intEnd + 1) ELSE intEnd
      nFrac == IF hasDot THEN fracEnd - intEnd - 1 ELSE 0
      mantissa == Fin(sgn * (DigitsValue(t, start, intEnd) * NatPow(10, nFrac)
                             + DigitsValue(t, intEnd + 1, fracEnd)),
                      NatPow(10, nFrac))
      hasE == fracEnd <= Len(t) /\ t[fracEnd] \in {"e", "E"}
      expSigned == hasE /\ fracEnd + 1 <= Len(t) /\ t[fracEnd + 1] \in {"-", "+"}
      expStart == IF expSigned THEN fracEnd + 2 ELSE fracEnd + 1
      expEnd == IF hasE THEN DigitsEnd(t, expStart) ELSE expStart
      expVal == DigitsValue(t, expStart, expEnd)
  IN  IF (intEnd - start) + nFrac = 0 THEN NaN
      ELSE IF hasE /\ expEnd > expStart
        THEN IF expSigned /\ t[fracEnd + 1] = "-"
               THEN Div(mantissa, Num(NatPow(10, expVal)))
               ELSE Mul(mantissa, Num(NatPow(10, expVal)))
      ELSE mantissa

\* x || 0 without its fallback: the parsed number as it is
OrZero_Identity(x) == x

\* x || 0 for a number x: NaN and 0 are falsy
OrZero(x) == IF IsNaN(x) \/ IsZero(x) THEN ZERO ELSE x

(***************************************************************************)
(* The valuation inputs and the stock they belong to.                      *)
(***************************************************************************)
Fields ==
  {"currentPrice", "investmentHorizon", "currentSales", "salesGrowthCAGR",
   "netProfitMargin", "sharesOutstanding", "expectedPEAtYearEnd",
   "shareRepurchaseDividendIssue", "expectedReturn", "marginOfSafetyPercent",
   "tam", "sam"}

\* stock.valuation or stock.tam when the stock has none
Null == [f \in {} |-> ZERO]

\* the defaults of a stock's valuation inputs
defaultValuation(s) ==
  [currentPrice |-> OrZero(s.currentPrice),
   investmentHorizon |-> Num(5),
   currentSales |-> Num(0),
   salesGrowthCAGR |-> Num(15),
   netProfitMargin |-> Num(20),
   sharesOutstanding |-> Num(1000000),
   expectedPEAtYearEnd |-> Num(25),
   shareRepurchaseDividendIssue |-> Num(2),
   expectedReturn |-> Num(15),
   marginOfSafetyPercent |-> Num(25),
   tam |-> IF "tam" \in DOMAIN s.tam THEN OrZero(s.tam.tam) ELSE ZERO,
   sam |-> IF "sam" \in DOMAIN s.tam THEN OrZero(s.tam.sam) ELSE ZERO]

\* the defaults alone, whatever the stock has persisted
initialValuation_DefaultsOnly(s) == defaultValuation(s)

\* { ...defaultValuation, ...stock.valuation }
initialValuation(s) ==
  [f \in Fields |->
     IF f \in DOMAIN s.valuation THEN s.valuation[f] ELSE defaultValuation(s)[f]]

(***************************************************************************)
(* The calculation, one operator per formula, in the order of the code.    *)
(* A formula takes the inputs v and the constants computed before it that  *)
(* it reads.                                                               *)
(***************************************************************************)
\* normalizedNetProfitMargin with the margin taken as a fraction, not a percentage
normalizedNetProfitMargin_NoPercent(v) == Mul(v.currentSales, v.netProfitMargin)

normalizedNetProfitMargin(v) == Mul(v.currentSales, Div(v.netProfitMargin, HUNDRED))

\* normalizedEPS with the guard >= 0 in place of > 0
normalizedEPS_GuardGe(v, nnpm) ==
  IF Ge(v.sharesOutstanding, ZERO) THEN Div(nnpm, v.sharesOutstanding) ELSE ZERO

normalizedEPS(v, nnpm) ==
  IF Gt(v.sharesOutstanding, ZERO) THEN Div(nnpm, v.sharesOutstanding) ELSE ZERO

normalizedCurrentPE(v, nEPS) ==
  IF Gt(nEPS, ZERO) THEN Div(v.currentPrice, nEPS) ELSE ZERO

peExpansionPercent(v, nPE) ==
  IF Gt(nPE, ZERO) /\ Gt(v.investmentHorizon, ZERO)
    THEN Mul(Sub(Pow(Div(v.expectedPEAtYearEnd, nPE), Div(ONE, v.investmentHorizon)),
                 ONE),
             HUNDRED)
    ELSE ZERO

\* salesAtYearEnd with the growth subtracted instead of added
salesAtYearEnd_Minus(v) ==
  Mul(v.currentSales,
      Pow(Sub(ONE, Div(v.salesGrowthCAGR, HUNDRED)), v.investmentHorizon))

salesAtYearEnd(v) ==
  Mul(v.currentSales,
      Pow(Add(ONE, Div(v.salesGrowthCAGR, HUNDRED)), v.investmentHorizon))

penetrationRate(v) ==
  IF Gt(v.sam, ZERO) THEN Mul(Div(v.tam, v.sam), HUNDRED) ELSE ZERO

\* marketShare without its guard
marketShare_Unguarded(v, sYE) == Mul(Div(sYE, v.sam), HUNDRED)

marketShare(v, sYE) ==
  IF Gt(v.sam, ZERO) THEN Mul(Div(sYE, v.sam), HUNDRED) ELSE ZERO

netProfitAtYearEnd(v, sYE) == Mul(sYE, Div(v.netProfitMargin, HUNDRED))

adjustedShares(v) ==
  Mul(v.sharesOutstanding,
      Pow(Sub(ONE, Div(v.shareRepurchaseDividendIssue, HUNDRED)),
          v.investmentHorizon))

\* epsAtYearEnd without its guard
epsAtYearEnd_Unguarded(v, sYE, adj) ==
  Div(Mul(sYE, Div(v.netProfitMargin, HUNDRED)), adj)

epsAtYearEnd(v, sYE, adj) ==
  IF Gt(adj, ZERO)
    THEN Div(Mul(sYE, Div(v.netProfitMargin, HUNDRED)), adj)
    ELSE ZERO

epsExpansionPercent(v, nEPS, epsYE) ==
  IF Gt(nEPS, ZERO) /\ Gt(v.investmentHorizon, ZERO)
    THEN Mul(Sub(Pow(Div(epsYE, nEPS), Div(ONE, v.investmentHorizon)), ONE),
             HUNDRED)
    ELSE ZERO

\* totalReturn with the cross term not divided by 100
totalReturn_NoPercent(v, peX, epsX) ==
  Add(Add(Add(v.salesGrowthCAGR, peX), Mul(peX, epsX)),
      v.shareRepurchaseDividendIssue)

totalReturn(v, peX, epsX) ==
  Add(Add(Add(v.salesGrowthCAGR, peX), Div(Mul(peX, epsX), HUNDRED)),
      v.shareRepurchaseDividendIssue)

dif(v, total) == Sub(total, v.expectedReturn)

\* fairPrice with the guard >= 0 in place of > 0
fairPrice_GuardGe(v, epsYE) ==
  IF Ge(v.investmentHorizon, ZERO)
    THEN Div(Mul(epsYE, v.expectedPEAtYearEnd),
             Pow(Add(ONE, Div(v.expectedReturn, HUNDRED)), v.investmentHorizon))
    ELSE ZERO

\* fairPrice with a zero discount factor answered by 0
fairPrice_ZeroDiscount(v, epsYE) ==
  LET discount == Pow(Add(ONE, Div(v.expectedReturn, HUNDRED)), v.investmentHorizon)
  IN  IF Gt(v.investmentHorizon, ZERO) /\ ~IsZero(discount)
        THEN Div(Mul(epsYE, v.expectedPEAtYearEnd), discount)
        ELSE ZERO

fairPrice(v, epsYE) ==
  IF Gt(v.investmentHorizon, ZERO)
    THEN Div(Mul(epsYE, v.expectedPEAtYearEnd),
             Pow(Add(ONE, Div(v.expectedReturn, HUNDRED)), v.investmentHorizon))
    ELSE ZERO

\* fairPriceWithMOS with the margin taken as a fraction, not a percentage
fairPriceWithMOS_NoPercent(v, fp) == Mul(fp, Sub(ONE, v.marginOfSafetyPercent))

fairPriceWithMOS(v, fp) ==
  Mul(fp, Sub(ONE, Div(v.marginOfSafetyPercent, HUNDRED)))

\* the calculation returning a record without the last output
Calculations_NoMOS(v) ==
  LET nnpm == normalizedNetProfitMargin(v)
      nEPS == normalizedEPS(v, nnpm)
      nPE == normalizedCurrentPE(v, nEPS)
      peX == peExpansionPercent(v, nPE)
      sYE == salesAtYearEnd(v)
      epsYE == epsAtYearEnd(v, sYE, adjustedShares(v))
      epsX == epsExpansionPercent(v, nEPS, epsYE)
      total == totalReturn(v, peX, epsX)
  IN  [normalizedNetProfitMargin |-> nnpm,
       normalizedEPS |-> nEPS,
       normalizedCurrentPE |-> nPE,
       peExpansionPercent |-> peX,
       salesAtYearEnd |-> sYE,
       penetrationRate |-> penetrationRate(v),
       marketShare |-> marketShare(v, sYE),
       netProfitAtYearEnd |-> netProfitAtYearEnd(v, sYE),
       epsAtYearEnd |-> epsYE,
       epsExpansionPercent |-> epsX,
       totalReturn |-> total,
       dif |-> dif(v, total),
       fairPrice |-> fairPrice(v, epsYE)]

\* the record the memoised calculation returns for the inputs v
Calculations(v) ==
  LET nnpm == normalizedNetProfitMargin(v)
      nEPS == normalizedEPS(v, nnpm)
      nPE == normalizedCurrentPE(v, nEPS)
      peX == peExpansionPercent(v, nPE)
      sYE == salesAtYearEnd(v)
      adj == adjustedShares(v)
      epsYE == epsAtYearEnd(v, sYE, adj)
      epsX == epsExpansionPercent(v, nEPS, epsYE)
      total == totalReturn(v, peX, epsX)
      fp == fairPrice(v, epsYE)
  IN  [normalizedNetProfitMargin |-> nnpm,
       normalizedEPS |-> nEPS,
       normalizedCurrentPE |-> nPE,
       peExpansionPercent |-> peX,
       salesAtYearEnd |-> sYE,
       penetrationRate |-> penetrationRate(v),
       marketShare |-> marketShare(v, sYE),
       netProfitAtYearEnd |-> netProfitAtYearEnd(v, sYE),
       epsAtYearEnd |-> epsYE,
       epsExpansionPercent |-> epsX,
       totalReturn |-> total,
       dif |-> dif(v, total),
       fairPrice |-> fp,
       fairPriceWithMOS |-> fairPriceWithMOS(v, fp)]

\* the outputs computed by the first formulas of the calculation that take no
\* root: the part of the record that exact arithmetic can follow under the
\* default horizon of 5 years and the default 1000000 shares
CalculationsHead(v) ==
  LET nnpm == normalizedNetProfitMargin(v)
      nEPS == normalizedEPS(v, nnpm)
  IN  [normalizedNetProfitMargin |-> nnpm,
       normalizedEPS |-> nEPS,
       normalizedCurrentPE |-> normalizedCurrentPE(v, nEPS),
       salesAtYearEnd |-> salesAtYearEnd(v)]

(***************************************************************************)
(* The text shown for a number.  A text is a sequence of characters; the   *)
(* infinity sign is the character "U+221E".  Values of 10^21 and more,     *)
(* which Number.prototype.toFixed writes with an exponent, are outside the *)
(* bounded inputs.                                                         *)
(***************************************************************************)
\* the decimal digits of the natural n, the most significant first
RECURSIVE NatDigits(_)
NatDigits(n) ==
  IF n < 10 THEN <<Digits[n + 1]>>
  ELSE Append(NatDigits(n \div 10), Digits[(n % 10) + 1])

\* the last k decimal digits of the natural n, padded with zeros
RECURSIVE LastDigits(_, _)
LastDigits(n, k) ==
  IF k = 0 THEN <<>>
  ELSE Append(LastDigits(n \div 10, k - 1), Digits[(n % 10) + 1])

\* |x| * 10^k for a finite x, rounded to the nearest natural, a half rounded up
RoundScaled(x, k) ==
  LET whole == Abs(x.n) \div x.d
      rest == Abs(x.n) % x.d
  IN  whole * NatPow(10, k) + (2 * rest * NatPow(10, k) + x.d) \div (2 * x.d)

\* the digits ds with a comma before every group of three from the right
RECURSIVE GroupDigits(_)
GroupDigits(ds) ==
  IF Len(ds) <= 3 THEN ds
  ELSE GroupDigits(SubSeq(ds, 1, Len(ds) - 3)) \o <<",">>
         \o SubSeq(ds, Len(ds) - 2, Len(ds))

\* the sign, the digits of the whole part (in groups of three when grouped)
\* and the k digits of the fraction of a finite x
FixedDigits(x, k, grouped) ==
  LET scaled == RoundScaled(x, k)
      whole == NatDigits(scaled \div NatPow(10, k))
  IN  (IF x.n < 0 THEN <<"-">> ELSE <<>>)
        \o (IF grouped THEN GroupDigits(whole) ELSE whole)
        \o (IF k > 0 THEN <<".">> \o LastDigits(scaled, k) ELSE <<>>)

\* num.toFixed(fractionDigits)
toFixed(num, fractionDigits) ==
  IF IsNaN(num) THEN <<"N", "a", "N">>
  ELSE IF IsInf(num)
    THEN (IF num.n < 0 THEN <<"-">> ELSE <<>>)
           \o <<"I", "n", "f", "i", "n", "i", "t", "y">>
  ELSE FixedDigits(num, fractionDigits, FALSE)

\* num.toLocaleString('en-US', { minimumFractionDigits: decimals,
\*                               maximumFractionDigits: decimals })
formatNumber(num, decimals) ==
  IF IsNaN(num) THEN <<"N", "a", "N">>
  ELSE IF IsInf(num)
    THEN (IF num.n < 0 THEN <<"-">> ELSE <<>>) \o <<"U+221E">>
  ELSE FixedDigits(num, decimals, TRUE)

\* the text the view shows for the output o: the formatted number between
\* the currency sign and the unit of its card
Display(c, o) ==
  (IF o \in {"fairPrice", "fairPriceWithMOS", "normalizedEPS",
             "normalizedNetProfitMargin", "epsAtYearEnd", "netProfitAtYearEnd",
             "salesAtYearEnd"}
     THEN <<"$">> ELSE <<>>)
    \o formatNumber(c[o], 2)
    \o (IF o \in {"normalizedNetProfitMargin", "netProfitAtYearEnd", "salesAtYearEnd"}
          THEN <<"M">>
        ELSE IF o \in {"peExpansionPercent", "epsExpansionPercent", "totalReturn",
                       "dif", "penetrationRate", "marketShare"}
          THEN <<"%">>
        ELSE <<>>)

\* the cell exportToCSV writes for the output o
CsvCell(c, o) == toFixed(c[o], 2)

(***************************************************************************)
(* The bounded inputs: the texts typed into each field and the stocks the  *)
(* view is opened for.                                                     *)
(***************************************************************************)
\* whole horizons only: a fractional power then arises as 1 / investmentHorizon
HorizonTexts ==
  {<<>>, <<"2">>, <<"-", "1">>}

PercentTexts ==
  {<<>>, <<"1", "0", "0">>, <<"-", "1", "0", "0">>}

AmountTexts ==
  {<<>>, <<"0", ".", "2", "e", "1">>, <<"-", "1">>}

PercentFields ==
  {"salesGrowthCAGR", "netProfitMargin", "shareRepurchaseDividendIssue",
   "expectedReturn", "marginOfSafetyPercent"}

TextsOf(f) ==
  IF f = "investmentHorizon" THEN HorizonTexts
  ELSE IF f \in PercentFields THEN PercentTexts
  ELSE AmountTexts

\* The stocks carry a saved valuation that sets at least the horizon and the
\* number of shares: under the defaults of both (5 years, 1000000 shares) the
\* exact quotients of the calculation exceed the 32-bit integers of TLC.

\* a valuation saved earlier with every field set
SavedFull ==
  [currentPrice |-> Num(100), investmentHorizon |-> Num(1),
   currentSales |-> Num(100), salesGrowthCAGR |-> Num(0),
   netProfitMargin |-> Num(100), sharesOutstanding |-> Num(1),
   expectedPEAtYearEnd |-> Num(1), shareRepurchaseDividendIssue |-> Num(0),
   expectedReturn |-> Num(0), marginOfSafetyPercent |-> Num(25),
   tam |-> Num(0), sam |-> Num(0)]

\* a stored valuation that leaves the price, the margin of safety and the
\* market sizes to the defaults
SavedPartial ==
  [investmentHorizon |-> Num(2), currentSales |-> Num(4),
   salesGrowthCAGR |-> Num(100), netProfitMargin |-> Num(25),
   sharesOutstanding |-> Num(2), expectedPEAtYearEnd |-> Num(4),
   shareRepurchaseDividendIssue |-> Num(0), expectedReturn |-> Num(25)]

Stocks ==
  {[currentPrice |-> Num(100), tam |-> Null, valuation |-> SavedFull],
   [currentPrice |-> Num(4), tam |-> [tam |-> Num(4), sam |-> Num(2), som |-> Num(1)],
    valuation |-> SavedPartial]}

(***************************************************************************)
(* Each specification follows one part of the program; the variables of    *)
(* the other parts rest in the states below.                               *)
(***************************************************************************)
\* a table without rows
NoRows == <<>>

\* the section saves that can be under way at once
Procs == {"a", "b"}

\* no call of a save function is under way
IdleSave == [pc |-> "idle"]

\* a timer or an onSave call that is not there
None == <<>>

\* no Valuation view is mounted
ViewIdle ==
  /\ stock = Null /\ valuation = Null /\ editing = FALSE
  /\ calculations = Null /\ edits = 0

\* no request reaches the ai-command endpoint
AiIdle == rows = NoRows /\ user = "none"

\* no section of the stock is saved
StoreIdle ==
  /\ business_overviews = NoRows /\ saves = [p \in Procs |-> IdleSave]
  /\ financials = NoRows /\ finSave = IdleSave

\* no component uses the hook
HookIdle ==
  /\ enabled = FALSE /\ data = "" /\ previousDataRef = ""
  /\ timeoutRef = None /\ isSavingRef = FALSE /\ inFlight = None
  /\ lastSaveArg = "" /\ timers = None /\ quiet = 0
  /\ toast = "" /\ risks = {}

BackendIdle == AiIdle /\ StoreIdle /\ HookIdle

(***************************************************************************)
(* The view: its construction and its handlers.                            *)
(***************************************************************************)
Init ==
  /\ stock \in Stocks
  /\ valuation = initialValuation(stock)
  /\ editing = FALSE
  /\ calculations = Calculations(valuation)
  /\ edits = 0
  /\ BackendIdle

\* the Edit button: setEditing(true)
StartEdit ==
  /\ ~editing
  /\ editing' = TRUE
  /\ UNCHANGED <<stock, valuation, calculations, edits>>
  /\ UNCHANGED backend

\* onChange of the input of field f with the text t; the inputs are disabled
\* unless editing; the change of valuation re-runs the memoised calculation
OnChange(f, t) ==
  /\ editing
  /\ edits < MaxEdits
  /\ valuation' = [valuation EXCEPT ![f] = OrZero(ParseFloat(t))]
  /\ calculations' = Calculations(valuation')
  /\ edits' = edits + 1
  /\ UNCHANGED <<stock, editing>>
  /\ UNCHANGED backend

\* Save that writes the outputs next to the inputs
handleSave_StoresOutputs ==
  /\ editing
  /\ editing' = FALSE
  /\ stock' = [stock EXCEPT !.valuation = valuation @@ calculations]
  /\ UNCHANGED <<valuation, calculations, edits>>
  /\ UNCHANGED backend

\* the Save button (shown while editing): updateStock(stock.id, { valuation })
\* and setEditing(false); when the update and the refetch succeed the stock
\* carries the saved valuation, otherwise it is as before
handleSave ==
  /\ editing
  /\ editing' = FALSE
  /\ \/ stock' = [stock EXCEPT !.valuation = valuation]
     \/ stock' = stock
  /\ UNCHANGED <<valuation, calculations, edits>>
  /\ UNCHANGED backend

\* Reset that leaves the memoised calculation as it was
handleReset_StaleMemo ==
  /\ valuation' = initialValuation(stock)
  /\ UNCHANGED <<stock, editing, calculations, edits>>
  /\ UNCHANGED backend

\* the Reset button: setValuation({ ...defaultValuation, ...stock.valuation })
handleReset ==
  /\ valuation' = initialValuation(stock)
  /\ calculations' = Calculations(valuation')
  /\ UNCHANGED <<stock, editing, edits>>
  /\ UNCHANGED backend

Next ==
  \/ StartEdit
  \/ \E f \in Fields : \E t \in TextsOf(f) : OnChange(f, t)
  \/ handleSave
  \/ handleReset

Spec == Init /\ [][Next]_vars

TypeOK ==
  /\ editing \in BOOLEAN
  /\ edits \in 0..MaxEdits
  /\ DOMAIN valuation = Fields
  /\ \A f \in Fields : IsNumber(valuation[f])

(***************************************************************************)
(* The view opened for stocks whose persisted valuation is absent or       *)
(* partial, so that the defaults fill in.  Under the default horizon and   *)
(* share count the roots of the later formulas leave the exact arithmetic, *)
(* so this specification follows the memoised record up to salesAtYearEnd  *)
(* (CalculationsHead); the handlers are otherwise those of Spec.           *)
(***************************************************************************)
\* a persisted valuation that holds three fields only, one of them 0
PersistedPartial ==
  [currentPrice |-> Num(150), salesGrowthCAGR |-> Num(10), tam |-> Num(0)]

MarketSizes == [tam |-> Num(500), sam |-> Num(200), som |-> Num(50)]

OpenStocks ==
  {[currentPrice |-> Num(170), tam |-> Null, valuation |-> Null],
   [currentPrice |-> Num(0), tam |-> MarketSizes, valuation |-> Null],
   [currentPrice |-> Num(170), tam |-> MarketSizes, valuation |-> PersistedPartial],
   [currentPrice |-> Num(100), tam |-> [valuation |-> SavedFull],
    valuation |-> SavedFull]}

OpenFields == {"currentPrice", "currentSales", "sharesOutstanding"}

\* no text of a field writes the value a stock of OpenStocks without a full
\* persisted valuation hydrates that field with, so on such a stock an edit
\* always moves the inputs away from the hydrated ones
OpenTextsOf(f) ==
  IF f = "currentPrice" THEN {<<>>, <<"1", "6", "0">>}
  ELSE IF f = "currentSales" THEN {<<"5">>, <<"1", "0", "0", "0">>}
  ELSE {<<>>, <<"2">>}

OpenInit ==
  /\ stock \in OpenStocks
  /\ valuation = initialValuation(stock)
  /\ editing = FALSE
  /\ calculations = CalculationsHead(valuation)
  /\ edits = 0
  /\ BackendIdle

\* onChange of the input of field f with the text t
OpenOnChange(f, t) ==
  /\ editing
  /\ edits < MaxEdits
  /\ valuation' = [valuation EXCEPT ![f] = OrZero(ParseFloat(t))]
  /\ calculations' = CalculationsHead(valuation')
  /\ edits' = edits + 1
  /\ UNCHANGED <<stock, editing>>
  /\ UNCHANGED backend

\* the Reset button
OpenReset ==
  /\ valuation' = initialValuation(stock)
  /\ calculations' = CalculationsHead(valuation')
  /\ UNCHANGED <<stock, editing, edits>>
  /\ UNCHANGED backend

OpenNext ==
  \/ StartEdit
  \/ \E f \in OpenFields : \E t \in OpenTextsOf(f) : OpenOnChange(f, t)
  \/ handleSave
  \/ OpenReset

SpecOpen == OpenInit /\ [][OpenNext]_vars

(***************************************************************************)
(* The ai-command endpoint (src/unnamed/part_003, lines 13-233).  A        *)
(* request carries the authenticated user and the tool call the language   *)
(* model answered with: an operation, the data to write and, for update,   *)
(* filters.  The endpoint writes through a client made with the service    *)
(* role key, which the row-level policies of the tables do not bind.  One  *)
(* table is followed; a row is its primary key id, its owner user_id and   *)
(* one more column.  The data of an update holds no id.                    *)
(***************************************************************************)
\* the primary keys a row of the table can have
MaxRows == 3

RowIds == 1..MaxRows

Users == {"u1", "u2"}

Descriptions == {"x", "y"}

NoFilters == <<>>

\* the data objects of a tool call: a column, with or without a primary key,
\* with or without an owner
ToolData ==
  [description : Descriptions]
    \cup [id : RowIds, description : Descriptions]
    \cup [user_id : Users, description : Descriptions]

\* the filters of a tool call
ToolFilters == {NoFilters} \cup [id : RowIds] \cup [description : Descriptions]

\* { ...data, user_id: user.id }
dataWithUser(d, u) ==
  [k \in DOMAIN d \cup {"user_id"} |-> IF k = "user_id" THEN u ELSE d[k]]

\* the row an insert of the data dw makes
NewRow(dw) == [user_id |-> dw.user_id, description |-> dw.description]

\* the row r with the columns of dw written over it
Written(r, dw) == [k \in DOMAIN r |-> IF k \in DOMAIN dw THEN dw[k] ELSE r[k]]

\* the row with key i passes the filters f
Passes(i, f) ==
  \A k \in DOMAIN f : IF k = "id" THEN i = f[k] ELSE rows[i][k] = f[k]

AiInit ==
  /\ rows = (1 :> [user_id |-> "u1", description |-> "x"])
              @@ (2 :> [user_id |-> "u2", description |-> "x"])
  /\ user = "none"
  /\ ViewIdle /\ StoreIdle /\ HookIdle

\* a request without a valid token or without a command: answered 401 or 400
\* before the service-role client is made
Rejected ==
  /\ user' = "none"
  /\ UNCHANGED <<rows, viewVars, storeVars, hookVars>>

\* supabase.from(table).insert(dataWithUser): a new row, under the given key
\* or under a fresh one; a key that exists is an error and writes nothing
Insert(u, d) ==
  LET dw == dataWithUser(d, u)
  IN  /\ user' = u
      /\ \/ /\ "id" \in DOMAIN dw /\ dw.id \in DOMAIN rows
            /\ rows' = rows
         \/ /\ "id" \in DOMAIN dw /\ dw.id \notin DOMAIN rows
            /\ rows' = rows @@ (dw.id :> NewRow(dw))
         \/ /\ "id" \notin DOMAIN dw
            /\ \E i \in RowIds \ DOMAIN rows : rows' = rows @@ (i :> NewRow(dw))
      /\ UNCHANGED <<viewVars, storeVars, hookVars>>

\* supabase.from(table).update(dataWithUser) with .eq(key, value) for every
\* filter and .eq('user_id', user.id)
Update(u, d, f) ==
  LET dw == dataWithUser(d, u)
  IN  /\ "id" \notin DOMAIN d
      /\ user' = u
      /\ rows' = [i \in DOMAIN rows |->
                    IF rows[i].user_id = u /\ Passes(i, f)
                      THEN Written(rows[i], dw) ELSE rows[i]]
      /\ UNCHANGED <<viewVars, storeVars, hookVars>>

\* supabase.from(table).upsert(dataWithUser): insert, and on a conflict of
\* the primary key write the data over the row that has it
Upsert(u, d) ==
  LET dw == dataWithUser(d, u)
  IN  /\ user' = u
      /\ \/ /\ "id" \in DOMAIN dw /\ dw.id \in DOMAIN rows
            /\ rows' = [rows EXCEPT ![dw.id] = Written(@, dw)]
         \/ /\ "id" \in DOMAIN dw /\ dw.id \notin DOMAIN rows
            /\ rows' = rows @@ (dw.id :> NewRow(dw))
         \/ /\ "id" \notin DOMAIN dw
            /\ \E i \in RowIds \ DOMAIN rows : rows' = rows @@ (i :> NewRow(dw))
      /\ UNCHANGED <<viewVars, storeVars, hookVars>>

AiNext ==
  \/ Rejected
  \/ \E u \in Users, d \in ToolData : Insert(u, d)
  \/ \E u \in Users, d \in ToolData, f \in ToolFilters : Update(u, d, f)
  \/ \E u \in Users, d \in ToolData : Upsert(u, d)

SpecAI == AiInit /\ [][AiNext]_vars

(***************************************************************************)
(* The section saves of StockContext (src/src/contexts/StockContext.tsx,   *)
(* lines 377-650) on the business_overviews rows of one stock of one user. *)
(* A row is followed by its columns tam, channel and custom_metrics; the   *)
(* rows are kept in the order of their insertion and a row's id is its     *)
(* place.  The columns tam and channel hold JSON text, modelled as the     *)
(* object it writes: a function from keys to values, empty for a column    *)
(* that is null.  A story, a thinkForMarket object and a list of custom    *)
(* metrics are opaque values.  Every save function first selects the row   *)
(* (and the column it merges into), then updates it or inserts one; each   *)
(* await is a step.                                                        *)
(***************************************************************************)
\* obj with obj[k] = v
SetKey(obj, k, v) ==
  [x \in DOMAIN obj \cup {k} |-> IF x = k THEN v ELSE obj[x]]

\* a row as an insert of no column makes it
EmptyRow == [tam |-> <<>>, channel |-> <<>>, custom_metrics |-> "[]"]

\* the tam state of the BusinessOverview component
TamSizes == {MarketSizes, [tam |-> Num(0), sam |-> Num(0), som |-> Num(0)]}

\* the valuations a Save of the Valuation view passes on
SavedValuations ==
  {SavedFull, defaultValuation([currentPrice |-> Num(170), tam |-> Null])}

SaveKinds == {"overview", "valuation", "story", "metrics"}

\* what updateStock hands the save function of a section
Payloads(k) ==
  IF k = "overview"
    THEN [tam : TamSizes, thinkForMarket : {"m1", "m2"}, tippingPoint : {"", "p1"}]
  ELSE IF k = "valuation" THEN SavedValuations
  ELSE IF k = "story" THEN {"s1", "s2"}
  ELSE {"c1", "c2"}

\* one payload for each section
RacePayloads(k) ==
  IF k = "overview"
    THEN {[tam |-> MarketSizes, thinkForMarket |-> "m1", tippingPoint |-> "p1"]}
  ELSE IF k = "valuation" THEN {SavedFull}
  ELSE IF k = "story" THEN {"s1"}
  ELSE {"c1"}

\* .select(...).eq('stock_symbol', symbol).eq('user_id', ...).maybeSingle():
\* the id of the row when there is exactly one, no row (0) when there is
\* none, and an error with no row when there are several
maybeSingle == IF Len(business_overviews) = 1 THEN 1 ELSE 0

\* updateStory's channel, with every other key dropped
StoryChannel_Overwrite(channelData, story) == SetKey(<<>>, "story", story)

\* updateStory: channelData.story = story
StoryChannel(channelData, story) == SetKey(channelData, "story", story)

\* updateBusinessOverview: the thinkForMarket and the tippingPoint that are
\* given (an object, a text that is not empty) set in channelData
OverviewChannel(channelData, d) ==
  LET withMarket == SetKey(channelData, "thinkForMarket", d.thinkForMarket)
  IN  IF d.tippingPoint # "" THEN SetKey(withMarket, "tippingPoint", d.tippingPoint)
      ELSE withMarket

\* updateValuation: tamData.valuation = valuation
ValuationTam(tamData, v) == SetKey(tamData, "valuation", v)

\* the columns the payload of a save writes
Columns(sv) ==
  IF sv.kind = "overview"
    THEN [tam |-> sv.payload.tam, channel |-> OverviewChannel(sv.read, sv.payload)]
  ELSE IF sv.kind = "valuation" THEN [tam |-> ValuationTam(sv.read, sv.payload)]
  ELSE IF sv.kind = "story" THEN [channel |-> StoryChannel(sv.read, sv.payload)]
  ELSE [custom_metrics |-> sv.payload]

\* the first await of the save function of section k called with d: the
\* select of the row; updateValuation and updateStory read their column
\* with it
Select(p, k, d) ==
  LET existing == maybeSingle
      read == IF existing = 0 THEN <<>>
              ELSE IF k = "valuation" THEN business_overviews[existing].tam
              ELSE IF k = "story" THEN business_overviews[existing].channel
              ELSE <<>>
  IN  /\ saves[p] = IdleSave
      /\ saves' = [saves EXCEPT ![p] =
                     [pc |-> IF k = "overview" /\ existing # 0 THEN "channel" ELSE "write",
                      kind |-> k, payload |-> d, existing |-> existing, read |-> read]]
      /\ UNCHANGED <<business_overviews, financials, finSave, viewVars, aiVars, hookVars>>

\* updateBusinessOverview: the select of the channel of the existing row
SelectChannel(p) ==
  /\ saves[p].pc = "channel"
  /\ saves' = [saves EXCEPT ![p].pc = "write",
                            ![p].read = business_overviews[saves[p].existing].channel]
  /\ UNCHANGED <<business_overviews, financials, finSave, viewVars, aiVars, hookVars>>

\* the update of the existing row, or the insert of a new one; an error is
\* logged and changes nothing
Write(p) ==
  /\ saves[p].pc = "write"
  /\ \/ /\ saves[p].existing # 0
        /\ business_overviews' =
             [business_overviews EXCEPT ![saves[p].existing] = Written(@, Columns(saves[p]))]
     \/ /\ saves[p].existing = 0
        /\ Len(business_overviews) < MaxRows
        /\ business_overviews' =
             Append(business_overviews, Written(EmptyRow, Columns(saves[p])))
     \/ UNCHANGED business_overviews
  /\ saves' = [saves EXCEPT ![p] = IdleSave]
  /\ UNCHANGED <<financials, finSave, viewVars, aiVars, hookVars>>

StoreInit ==
  /\ business_overviews = NoRows
  /\ saves = [p \in Procs |-> IdleSave]
  /\ financials = NoRows
  /\ finSave = IdleSave
  /\ ViewIdle /\ AiIdle /\ HookIdle

\* a save starts when no other is under way: the saves come one after another
SavesNext ==
  \/ \E p \in Procs, k \in SaveKinds : \E d \in Payloads(k) :
       /\ \A q \in Procs : saves[q] = IdleSave
       /\ Select(p, k, d)
  \/ \E p \in Procs : SelectChannel(p)
  \/ \E p \in Procs : Write(p)

SpecSaves == StoreInit /\ [][SavesNext]_vars

\* a save starts whatever else is under way
RaceNext ==
  \/ \E p \in Procs, k \in SaveKinds : \E d \in RacePayloads(k) : Select(p, k, d)
  \/ \E p \in Procs : SelectChannel(p)
  \/ \E p \in Procs : Write(p)

SpecRace == StoreInit /\ [][RaceNext]_vars

\* fetchStocks: the business_overviews row of the stock is the first one of
\* the answer; a stock without a row has none of the values below
fetchRow(overviews) == IF overviews = NoRows THEN EmptyRow ELSE overviews[1]

\* fetchStocks: valuationData = tamData.valuation, <<>> when there is none
fetchValuation(r) ==
  IF "valuation" \in DOMAIN r.tam THEN <<r.tam.valuation>> ELSE <<>>

\* fetchStocks: the tam, sam and som of the parsed tam column, <<>> when the
\* column has no tam
fetchSizes(r) ==
  IF "tam" \in DOMAIN r.tam
    THEN <<[tam |-> r.tam.tam, sam |-> r.tam.sam, som |-> r.tam.som]>>
  ELSE <<>>

\* fetchStocks: the story, thinkForMarket or tippingPoint of the parsed
\* channel column, <<>> when the column has none
fetchChannel(r, k) == IF k \in DOMAIN r.channel THEN <<r.channel[k]>> ELSE <<>>

\* the step is the write of a save of section k
WritingKind(k) ==
  \E p \in Procs :
    saves[p].pc = "write" /\ saves[p].kind = k /\ saves'[p] = IdleSave

(***************************************************************************)
(* The save of the financials (StockContext.tsx, lines 451-503) and their  *)
(* load (lines 191-222).  A period of the Financials component is a record *)
(* of its eleven fields, with the field "cm" for the value of a custom     *)
(* metric when one is defined.  The table is followed by the columns       *)
(* period, revenue, cost_of_revenue, net_profit, eps and custom_data of    *)
(* the rows of the stock and the user, in the order of their insertion.    *)
(* updateFinancials deletes these rows and then inserts the rows of the    *)
(* periods; each await is a step, and the call can stop between two steps  *)
(* (the page is closed, the connection is lost).                           *)
(***************************************************************************)
\* a value that counts as true in a condition: neither 0 nor NaN
Truthy(x) == ~IsNaN(x) /\ ~IsZero(x)

\* the periods a user saves
FinancialPeriods ==
  [period : {"Q1 2024"}, revenue : {Num(100)}, grossProfit : {Num(0), Num(40)},
   operatingIncome : {Num(0), Num(20)}, netIncome : {Num(0), Num(10)},
   rdExpense : {Num(0)}, smExpense : {Num(0)}, gaExpense : {Num(0)},
   freeCashFlow : {Num(0)}, sharesOutstanding : {Num(0), Num(5)},
   capex : {Num(0)}]

\* the period f with the value v of the custom metric "cm"
WithMetric(f, v) == [k \in DOMAIN f \cup {"cm"} |-> IF k = "cm" THEN v ELSE f[k]]

\* two periods that the mapping keeps as they are
TwoPeriods ==
  LET q == [period |-> "Q1 2024", revenue |-> Num(100), grossProfit |-> Num(40),
            operatingIncome |-> Num(0), netIncome |-> Num(10), rdExpense |-> Num(0),
            smExpense |-> Num(0), gaExpense |-> Num(0), freeCashFlow |-> Num(0),
            sharesOutstanding |-> Num(5), capex |-> Num(0)]
  IN  <<q, [q EXCEPT !.period = "Q2 2024", !.revenue = Num(120)]>>

\* what Financials.handleSave hands updateStock: the periods and the keys of
\* the custom metrics
FinancialSaves ==
  [financials : {<<>>, TwoPeriods} \cup {<<f>> : f \in FinancialPeriods},
   customMetrics : {{}}]
    \cup [financials : {<<WithMetric(f, Num(7))>> : f \in FinancialPeriods},
          customMetrics : {{"cm"}}]

\* updateFinancials: the row of the period f (lines 466-491)
financialRow(f, customMetricKeys) ==
  [period |-> f.period,
   revenue |-> OrZero(f.revenue),
   cost_of_revenue |-> IF Truthy(f.grossProfit) THEN Sub(f.revenue, f.grossProfit)
                       ELSE ZERO,
   net_profit |-> OrZero(f.netIncome),
   eps |-> IF Truthy(f.sharesOutstanding)
             THEN Div(OrZero(f.netIncome), f.sharesOutstanding)
           ELSE ZERO,
   custom_data |-> [k \in customMetricKeys \cap DOMAIN f |-> f[k]]]

\* fetchStocks: the period of the row r (lines 193-219)
financialData(r) ==
  LET base == [period |-> r.period,
               revenue |-> OrZero(r.revenue),
               grossProfit |-> Sub(r.revenue, OrZero(r.cost_of_revenue)),
               operatingIncome |-> ZERO,
               netIncome |-> OrZero(r.net_profit),
               rdExpense |-> ZERO,
               smExpense |-> ZERO,
               gaExpense |-> ZERO,
               freeCashFlow |-> ZERO,
               sharesOutstanding |-> IF Truthy(r.eps)
                                       THEN Div(OrZero(r.net_profit), r.eps)
                                     ELSE ZERO,
               capex |-> ZERO]
  IN  [k \in DOMAIN base \cup DOMAIN r.custom_data |->
         IF k \in DOMAIN r.custom_data THEN r.custom_data[k] ELSE base[k]]

\* fetchStocks: the financials of the stock
fetchFinancials(table) == [i \in DOMAIN table |-> financialData(table[i])]

\* updateStock with financials: updateFinancials begins; before holds the rows
\* stored at that time
StartFinancials(d) ==
  /\ finSave = IdleSave
  /\ finSave' = [pc |-> "delete", payload |-> d, before |-> financials,
                 deleted |-> FALSE, inserted |-> FALSE]
  /\ UNCHANGED <<financials, business_overviews, saves, viewVars, aiVars, hookVars>>

\* the delete of the rows of the stock and the user; an error is logged and
\* the save goes on
DeleteFinancials ==
  /\ finSave.pc = "delete"
  /\ \/ /\ financials' = NoRows
        /\ finSave' = [finSave EXCEPT !.pc = "insert", !.deleted = TRUE]
     \/ /\ UNCHANGED financials
        /\ finSave' = [finSave EXCEPT !.pc = "insert"]
  /\ UNCHANGED <<business_overviews, saves, viewVars, aiVars, hookVars>>

\* the insert of the rows of the periods, when there are any; an error is
\* logged
InsertFinancials ==
  LET financialRows ==
        [i \in DOMAIN finSave.payload.financials |->
           financialRow(finSave.payload.financials[i], finSave.payload.customMetrics)]
  IN  /\ finSave.pc = "insert"
      /\ \/ /\ Len(financials) + Len(financialRows) <= MaxFinancialRows
            /\ financials' = financials \o financialRows
            /\ finSave' = [finSave EXCEPT !.pc = "fetch", !.inserted = TRUE]
         \/ /\ financialRows # <<>>
            /\ UNCHANGED financials
            /\ finSave' = [finSave EXCEPT !.pc = "fetch"]
      /\ UNCHANGED <<business_overviews, saves, viewVars, aiVars, hookVars>>

\* the rest of updateStock: fetchStocks sets the stocks anew
FinishFinancials ==
  /\ finSave.pc = "fetch"
  /\ finSave' = IdleSave
  /\ UNCHANGED <<financials, business_overviews, saves, viewVars, aiVars, hookVars>>

\* the call stops where it is
InterruptFinancials ==
  /\ finSave.pc \in {"delete", "insert"}
  /\ finSave' = IdleSave
  /\ UNCHANGED <<financials, business_overviews, saves, viewVars, aiVars, hookVars>>

FinancialsNext ==
  \/ \E d \in FinancialSaves : StartFinancials(d)
  \/ DeleteFinancials
  \/ InsertFinancials
  \/ FinishFinancials
  \/ InterruptFinancials

SpecFinancials == StoreInit /\ [][FinancialsNext]_vars

(***************************************************************************)
(* The hook useAutoSave (src/src/hooks/use-auto-save.tsx) as the risk      *)
(* assessment uses it (src/src/components/stock/RiskAssessment.tsx, lines  *)
(* 25-32).  data is the JSON text of the data of the latest render, ""     *)
(* stands for a ref that is still undefined, inFlight holds the arguments  *)
(* of the onSave calls that have not settled, and lastSaveArg the argument *)
(* of the latest onSave call.  timers holds the pending timers in the      *)
(* order of their creation, each with the data its callback has captured   *)
(* and the ticks left until it is due; timeoutRef holds the captured data  *)
(* of the timer of the ref while that timer is pending (it is the latest   *)
(* one created, so the last of timers) and None otherwise, when            *)
(* clearTimeout of the ref does nothing.  The component passes a new data  *)
(* object and a new onSave with every render, so every render runs the     *)
(* effect again.  onSave is updateStock with the risk data; risks is the   *)
(* set of risk data the rows of the risks table hold.                      *)
(***************************************************************************)
DataValues == {"d0", "d1", "d2"}

\* the sequence without its i-th element
Remove(seq, i) ==
  [j \in 1..(Len(seq) - 1) |-> IF j < i THEN seq[j] ELSE seq[j + 1]]

\* clearTimeout(timeoutRef.current): the pending timers without the timer of
\* the ref
Cleared == IF timeoutRef # None THEN Remove(timers, Len(timers)) ELSE timers

\* setTimeout(callback, delay) with the callback capturing d
NewTimer(d) == [data |-> d, left |-> Delay]

\* the effect without its skip of unchanged data and of the initial load
Effect_NoSkip(en, d) ==
  IF ~en
    THEN /\ timeoutRef' = None
         /\ timers' = Cleared
         /\ UNCHANGED previousDataRef
  ELSE /\ timeoutRef' = <<d>>
       /\ timers' = Append(Cleared, NewTimer(d))
       /\ UNCHANGED previousDataRef

\* the effect without its cleanup and without its clearTimeout
Effect_NoClear(en, d) ==
  IF ~en
    THEN UNCHANGED <<timeoutRef, timers, previousDataRef>>
  ELSE IF d = previousDataRef \/ previousDataRef = ""
    THEN /\ previousDataRef' = d
         /\ UNCHANGED <<timeoutRef, timers>>
  ELSE /\ timeoutRef' = <<d>>
       /\ timers' = Append(timers, NewTimer(d))
       /\ UNCHANGED previousDataRef

\* the cleanup of the effect's last run, then its body for the render with
\* enabled en and data d (lines 21-69)
Effect(en, d) ==
  IF ~en
    THEN /\ timeoutRef' = None
         /\ timers' = Cleared
         /\ UNCHANGED previousDataRef
  ELSE IF d = previousDataRef \/ previousDataRef = ""
    THEN /\ previousDataRef' = d
         /\ timeoutRef' = None
         /\ timers' = Cleared
  ELSE /\ timeoutRef' = <<d>>
       /\ timers' = Append(Cleared, NewTimer(d))
       /\ UNCHANGED previousDataRef

\* the user changes a field: setRiskData and the render that follows
SetData(d) ==
  /\ d # data
  /\ data' = d
  /\ quiet' = 0
  /\ Effect(enabled, d)
  /\ UNCHANGED <<enabled, isSavingRef, inFlight, lastSaveArg, toast, risks,
                 viewVars, aiVars, storeVars>>

\* the Edit / Done Editing button: setEditing(!editing) and the render
SetEnabled ==
  /\ enabled' = ~enabled
  /\ Effect(~enabled, data)
  /\ UNCHANGED <<data, isSavingRef, inFlight, lastSaveArg, quiet, toast, risks,
                 viewVars, aiVars, storeVars>>

\* a render for another reason (the stocks of the context were set anew)
Rerender ==
  /\ Effect(enabled, data)
  /\ UNCHANGED <<enabled, data, isSavingRef, inFlight, lastSaveArg, quiet, toast, risks,
                 viewVars, aiVars, storeVars>>

\* one tick of the clock passes
Tick ==
  /\ timers' = [i \in DOMAIN timers |->
                  [timers[i] EXCEPT !.left = IF @ > 0 THEN @ - 1 ELSE 0]]
  /\ quiet' = IF quiet < Delay THEN quiet + 1 ELSE Delay
  /\ UNCHANGED <<enabled, data, previousDataRef, timeoutRef, isSavingRef, inFlight,
                 lastSaveArg, toast, risks, viewVars, aiVars, storeVars>>

\* the timeout callback without its first line
TimerFires_NoGuard ==
  \E i \in DOMAIN timers :
    /\ timers[i].left = 0
    /\ timers' = Remove(timers, i)
    /\ timeoutRef' = IF i = Len(timers) THEN None ELSE timeoutRef
    /\ isSavingRef' = TRUE
    /\ inFlight' = Append(inFlight, timers[i].data)
    /\ lastSaveArg' = timers[i].data
    /\ UNCHANGED <<enabled, data, previousDataRef, quiet, toast, risks,
                   viewVars, aiVars, storeVars>>

\* a timer that is due fires: the timeout callback up to its await (lines
\* 38-43)
TimerFires ==
  \E i \in DOMAIN timers :
    /\ timers[i].left = 0
    /\ timers' = Remove(timers, i)
    /\ timeoutRef' = IF i = Len(timers) THEN None ELSE timeoutRef
    /\ IF isSavingRef
         THEN UNCHANGED <<isSavingRef, inFlight, lastSaveArg>>
       ELSE /\ isSavingRef' = TRUE
            /\ inFlight' = Append(inFlight, timers[i].data)
            /\ lastSaveArg' = timers[i].data
    /\ UNCHANGED <<enabled, data, previousDataRef, quiet, toast, risks,
                   viewVars, aiVars, storeVars>>

\* how a call of updateStock with risk data ends (StockContext.tsx, lines
\* 314-375 and 652-682); it catches every error, so it always resolves
UpdateOutcomes ==
  {"written", "unknown stock", "stocks update fails", "no session",
   "delete fails", "insert fails", "delete and insert fail"}

\* the risk data in the rows of the risks table after updateStock with the
\* risk data d ended with outcome o: the rows of the stock are deleted and
\* the rows of d inserted, each unless it fails
RisksAfter(d, o) ==
  IF o = "written" THEN {d}
  ELSE IF o = "delete fails" THEN risks \cup {d}
  ELSE IF o = "insert fails" THEN {}
  ELSE risks

\* onSave resolves after updateStock ended with outcome o: the callback from
\* its await on (lines 44-50, 59-61)
SaveResolves(i, o) ==
  /\ i \in DOMAIN inFlight
  /\ o \in UpdateOutcomes
  /\ risks' = RisksAfter(inFlight[i], o)
  /\ previousDataRef' = inFlight[i]
  /\ toast' = "Saved"
  /\ isSavingRef' = FALSE
  /\ inFlight' = Remove(inFlight, i)
  /\ UNCHANGED <<enabled, data, timeoutRef, timers, quiet, lastSaveArg,
                 viewVars, aiVars, storeVars>>

\* onSave rejects: the catch and the finally (lines 51-61); the hook takes any
\* onSave, and updateStock itself never rejects
SaveRejects(i) ==
  /\ i \in DOMAIN inFlight
  /\ toast' = "Save Failed"
  /\ isSavingRef' = FALSE
  /\ inFlight' = Remove(inFlight, i)
  /\ UNCHANGED <<enabled, data, previousDataRef, timeoutRef, timers, quiet,
                 lastSaveArg, risks, viewVars, aiVars, storeVars>>

\* the component is mounted with editing false: the effect has returned at
\* its first line
HookInit ==
  /\ enabled = FALSE
  /\ data \in DataValues
  /\ previousDataRef = ""
  /\ timeoutRef = None
  /\ isSavingRef = FALSE
  /\ inFlight = None
  /\ lastSaveArg = ""
  /\ timers = None
  /\ quiet = 0
  /\ toast = ""
  /\ risks = {}
  /\ ViewIdle /\ AiIdle /\ StoreIdle

SaveSettles ==
  \E i \in DOMAIN inFlight :
    \/ \E o \in UpdateOutcomes : SaveResolves(i, o)
    \/ SaveRejects(i)

HookNext ==
  \/ \E d \in DataValues : SetData(d)
  \/ SetEnabled
  \/ Rerender
  \/ Tick
  \/ TimerFires
  \/ \E i \in DOMAIN inFlight, o \in UpdateOutcomes : SaveResolves(i, o)
  \/ \E i \in DOMAIN inFlight : SaveRejects(i)

\* time passes, a timer that is due again and again fires, and a call of
\* onSave settles
SpecAutoSave ==
  /\ HookInit /\ [][HookNext]_vars
  /\ WF_vars(Tick) /\ SF_vars(TimerFires) /\ WF_vars(SaveSettles)

(***************************************************************************)
(* The properties of the calculation.                                      *)
(***************************************************************************)
OutputFields ==
  {"normalizedNetProfitMargin", "normalizedEPS", "normalizedCurrentPE",
   "peExpansionPercent", "salesAtYearEnd", "penetrationRate", "marketShare",
   "netProfitAtYearEnd", "epsAtYearEnd", "epsExpansionPercent", "totalReturn",
   "dif", "fairPrice", "fairPriceWithMOS"}

\* C1: whenever one of the denominators sharesOutstanding, normalizedEPS,
\* normalizedCurrentPE, investmentHorizon, sam or adjustedShares is zero, each
\* output that divides by it is the fallback 0 (not NaN, not an infinity).
C1_ZeroDenominatorGivesZero ==
  /\ IsZero(valuation.sharesOutstanding) => IsZero(calculations.normalizedEPS)
  /\ IsZero(calculations.normalizedEPS) =>
       IsZero(calculations.normalizedCurrentPE) /\ IsZero(calculations.epsExpansionPercent)
  /\ IsZero(calculations.normalizedCurrentPE) => IsZero(calculations.peExpansionPercent)
  /\ IsZero(valuation.investmentHorizon) =>
       IsZero(calculations.peExpansionPercent) /\ IsZero(calculations.epsExpansionPercent)
  /\ IsZero(valuation.sam) =>
       IsZero(calculations.penetrationRate) /\ IsZero(calculations.marketShare)
  /\ IsZero(adjustedShares(valuation)) => IsZero(calculations.epsAtYearEnd)

\* C1 witness: the shares are bought back entirely (adjustedShares = 0 with
\* shares outstanding) while there is a profit at year end to divide
C1_Witness ==
  /\ IsZero(adjustedShares(valuation))
  /\ ~IsZero(valuation.sharesOutstanding)
  /\ IsFinite(calculations.netProfitAtYearEnd)
  /\ ~IsZero(calculations.netProfitAtYearEnd)
  /\ IsZero(calculations.epsAtYearEnd)

\* C2: the calculation returns a record of exactly the 14 outputs, each of
\* them a number (finite, an infinity or NaN), for every input.
C2_CalculationTotal ==
  /\ DOMAIN calculations = OutputFields
  /\ \A o \in OutputFields : IsNumber(calculations[o])

\* C2 witness: expectedReturn = -100 over a positive horizon, where the
\* discount factor is 0 and fairPrice is not finite
C2_Witness ==
  /\ valuation.expectedReturn = Num(-100)
  /\ Gt(valuation.investmentHorizon, ZERO)
  /\ ~IsFinite(calculations.fairPrice)
  /\ DOMAIN calculations = OutputFields

\* C3: with sharesOutstanding = 0, normalizedEPS and normalizedCurrentPE are 0.
C3_ZeroSharesGiveZeroEPS ==
  IsZero(valuation.sharesOutstanding) =>
    IsZero(calculations.normalizedEPS) /\ IsZero(calculations.normalizedCurrentPE)

\* C3 witness: no shares, but a net profit and a price to divide
C3_Witness ==
  /\ IsZero(valuation.sharesOutstanding)
  /\ ~IsZero(calculations.normalizedNetProfitMargin)
  /\ ~IsZero(valuation.currentPrice)
  /\ IsZero(calculations.normalizedEPS)

\* C4: with sam = 0, penetrationRate and marketShare are 0.
C4_ZeroSamGivesZeroRates ==
  IsZero(valuation.sam) =>
    IsZero(calculations.penetrationRate) /\ IsZero(calculations.marketShare)

\* C4 witness: sam = 0 with a tam and year-end sales to divide
C4_Witness ==
  /\ IsZero(valuation.sam)
  /\ ~IsZero(valuation.tam)
  /\ ~IsZero(calculations.salesAtYearEnd)
  /\ IsZero(calculations.marketShare)

\* C5: whatever edits, saves and resets came before, the outputs on display
\* are the calculation of the current twelve inputs and of nothing else.
C5_OutputsFunctionOfInputs == calculations = Calculations(valuation)

\* C5 witness: an edited valuation was saved and the view was edited again,
\* so the inputs differ from the stock's saved ones
C5_Witness ==
  /\ stock \notin Stocks
  /\ valuation # initialValuation(stock)
  /\ edits = MaxEdits
  /\ calculations = Calculations(valuation)

\* every input other than salesGrowthCAGR is the same before and after a step
OnlyGrowthChanges ==
  \A f \in Fields \ {"salesGrowthCAGR"} : valuation'[f] = valuation[f]

\* C6 as claimed: a step that only raises salesGrowthCAGR, over a positive
\* horizon, strictly raises salesAtYearEnd.
C6_GrowthStrictlyRaisesSales ==
  [][(/\ OnlyGrowthChanges
      /\ Gt(valuation.investmentHorizon, ZERO)
      /\ Gt(valuation'.salesGrowthCAGR, valuation.salesGrowthCAGR))
     => Gt(calculations'.salesAtYearEnd, calculations.salesAtYearEnd)]_vars

\* C6 as amended: a step that only raises salesGrowthCAGR, over a positive
\* horizon, with positive currentSales and a growth of at least -100 before
\* the step (a base 1 + growth/100 that is not negative), strictly raises
\* salesAtYearEnd.
C6_GrowthRaisesPositiveSales ==
  [][(/\ OnlyGrowthChanges
      /\ Gt(valuation.investmentHorizon, ZERO)
      /\ Gt(valuation.currentSales, ZERO)
      /\ Ge(valuation.salesGrowthCAGR, Num(-100))
      /\ Gt(valuation'.salesGrowthCAGR, valuation.salesGrowthCAGR))
     => Gt(calculations'.salesAtYearEnd, calculations.salesAtYearEnd)]_vars

\* C6 witness: the growth alone was raised above the saved one, over a
\* positive horizon and positive sales, and salesAtYearEnd is above the one
\* of the saved inputs
C6_Witness ==
  /\ \A f \in Fields \ {"salesGrowthCAGR"} : valuation[f] = initialValuation(stock)[f]
  /\ Gt(valuation.investmentHorizon, ZERO)
  /\ Gt(valuation.currentSales, ZERO)
  /\ Ge(initialValuation(stock).salesGrowthCAGR, Num(-100))
  /\ Gt(valuation.salesGrowthCAGR, initialValuation(stock).salesGrowthCAGR)
  /\ Gt(calculations.salesAtYearEnd, salesAtYearEnd(initialValuation(stock)))

\* the fields other than sharesOutstanding satisfy the constraints of the
\* data model
OtherwiseValid(v) ==
  /\ Ge(v.currentPrice, ZERO)
  /\ Gt(v.investmentHorizon, ZERO)
  /\ Ge(v.currentSales, ZERO)
  /\ Ge(v.expectedPEAtYearEnd, ZERO)
  /\ Ge(v.marginOfSafetyPercent, ZERO) /\ Gt(HUNDRED, v.marginOfSafetyPercent)
  /\ Ge(v.tam, ZERO) /\ Ge(v.sam, ZERO)

\* the factor fairPrice divides by
DiscountFactor(v) ==
  Pow(Add(ONE, Div(v.expectedReturn, HUNDRED)), v.investmentHorizon)

\* C7 as claimed: with sharesOutstanding = 0 and the other fields valid,
\* normalizedEPS = 0, epsAtYearEnd = 0 and fairPrice is a defined (finite)
\* value.
C7_ZeroSharesFairPriceDefined ==
  (IsZero(valuation.sharesOutstanding) /\ OtherwiseValid(valuation)) =>
    /\ IsZero(calculations.normalizedEPS)
    /\ IsZero(calculations.epsAtYearEnd)
    /\ IsFinite(calculations.fairPrice)

\* C7 as amended: with sharesOutstanding = 0 and the other fields valid,
\* normalizedEPS = 0, epsAtYearEnd = 0, and fairPrice is a number: 0 when the
\* discount factor is a number other than 0, NaN when the discount factor is
\* 0 (expectedReturn = -100) or NaN.
C7_ZeroSharesFairPrice ==
  (IsZero(valuation.sharesOutstanding) /\ OtherwiseValid(valuation)) =>
    /\ IsZero(calculations.normalizedEPS)
    /\ IsZero(calculations.epsAtYearEnd)
    /\ IsNumber(calculations.fairPrice)
    /\ IF IsZero(DiscountFactor(valuation)) \/ IsNaN(DiscountFactor(valuation))
         THEN IsNaN(calculations.fairPrice)
         ELSE IsZero(calculations.fairPrice)
    /\ valuation.expectedReturn = Num(-100) => IsNaN(calculations.fairPrice)
    /\ Gt(valuation.expectedReturn, Num(-100)) => IsZero(calculations.fairPrice)

\* C7 witness: no shares, valid other fields and expectedReturn = -100
C7_Witness ==
  /\ IsZero(valuation.sharesOutstanding)
  /\ OtherwiseValid(valuation)
  /\ valuation.expectedReturn = Num(-100)
  /\ ~IsZero(valuation.expectedPEAtYearEnd)
  /\ IsZero(calculations.epsAtYearEnd)
  /\ IsNaN(calculations.fairPrice)

\* C8: fairPriceWithMOS is fairPrice * (1 - marginOfSafetyPercent / 100); a
\* fairPrice of 100 with a margin of 25 gives 75; a margin in [0, 100) of a
\* fairPrice >= 0 gives a value between 0 and fairPrice.
C8_MarginOfSafety ==
  /\ calculations.fairPriceWithMOS =
       Mul(calculations.fairPrice,
           Sub(ONE, Div(valuation.marginOfSafetyPercent, HUNDRED)))
  /\ (calculations.fairPrice = Num(100) /\ valuation.marginOfSafetyPercent = Num(25))
       => calculations.fairPriceWithMOS = Num(75)
  /\ (/\ Ge(valuation.marginOfSafetyPercent, ZERO)
      /\ Gt(HUNDRED, valuation.marginOfSafetyPercent)
      /\ Ge(calculations.fairPrice, ZERO))
       => /\ Ge(calculations.fairPriceWithMOS, ZERO)
          /\ Ge(calculations.fairPrice, calculations.fairPriceWithMOS)

\* C8 witness: a fairPrice of 100 with a margin of safety of 25
C8_Witness ==
  /\ calculations.fairPrice = Num(100)
  /\ valuation.marginOfSafetyPercent = Num(25)
  /\ calculations.fairPriceWithMOS = Num(75)

\* C9: totalReturn is salesGrowthCAGR + peExpansionPercent +
\* peExpansionPercent * epsExpansionPercent / 100 +
\* shareRepurchaseDividendIssue over the two expansions of the same
\* evaluation, and dif is totalReturn - expectedReturn.
C9_TotalReturn ==
  /\ calculations.totalReturn =
       Add(Add(Add(valuation.salesGrowthCAGR, calculations.peExpansionPercent),
               Div(Mul(calculations.peExpansionPercent,
                       calculations.epsExpansionPercent), HUNDRED)),
           valuation.shareRepurchaseDividendIssue)
  /\ calculations.dif = Sub(calculations.totalReturn, valuation.expectedReturn)

\* C9 witness: both expansions are finite and not 0, so every term counts
C9_Witness ==
  /\ IsFinite(calculations.peExpansionPercent)
  /\ ~IsZero(calculations.peExpansionPercent)
  /\ IsFinite(calculations.epsExpansionPercent)
  /\ ~IsZero(calculations.epsExpansionPercent)
  /\ ~IsZero(valuation.salesGrowthCAGR)
  /\ ~IsZero(valuation.expectedReturn)
  /\ IsFinite(calculations.dif)

\* C10: when investmentHorizon is not greater than 0, peExpansionPercent,
\* epsExpansionPercent, fairPrice and fairPriceWithMOS are 0 and totalReturn
\* is salesGrowthCAGR + shareRepurchaseDividendIssue.
C10_NonPositiveHorizon ==
  ~Gt(valuation.investmentHorizon, ZERO) =>
    /\ IsZero(calculations.peExpansionPercent)
    /\ IsZero(calculations.epsExpansionPercent)
    /\ IsZero(calculations.fairPrice)
    /\ IsZero(calculations.fairPriceWithMOS)
    /\ calculations.totalReturn =
         Add(valuation.salesGrowthCAGR, valuation.shareRepurchaseDividendIssue)

\* C10 witness: a horizon of 0 or less where the guarded quotients have
\* something to divide
C10_Witness ==
  /\ ~Gt(valuation.investmentHorizon, ZERO)
  /\ Gt(calculations.normalizedEPS, ZERO)
  /\ Gt(calculations.normalizedCurrentPE, ZERO)
  /\ ~IsZero(calculations.epsAtYearEnd)
  /\ ~IsZero(valuation.expectedPEAtYearEnd)
  /\ IsZero(calculations.fairPrice)

(***************************************************************************)
(* The properties of the view around the calculation.                      *)
(***************************************************************************)
\* the inputs of Scenario 1
Scenario1 ==
  [currentPrice |-> Num(170), investmentHorizon |-> Num(5),
   currentSales |-> Num(1000), salesGrowthCAGR |-> Num(15),
   netProfitMargin |-> Num(20), sharesOutstanding |-> Num(1000000),
   expectedPEAtYearEnd |-> Num(25), shareRepurchaseDividendIssue |-> Num(2),
   expectedReturn |-> Num(15), marginOfSafetyPercent |-> Num(25),
   tam |-> Num(0), sam |-> Num(0)]

\* C11: for the inputs of Scenario 1 the calculation gives a normalized net
\* profit of 200, a normalizedEPS of 0.0002 and a salesAtYearEnd of
\* 1000 * 1.15^5, which is 2011.36 to two decimals.
C11_Scenario1 ==
  valuation = Scenario1 =>
    /\ calculations.normalizedNetProfitMargin = Num(200)
    /\ calculations.normalizedEPS = Fin(2, 10000)
    /\ calculations.salesAtYearEnd = Mul(Num(1000), IPow(Fin(115, 100), 5))
    /\ toFixed(calculations.salesAtYearEnd, 2) = <<"2", "0", "1", "1", ".", "3", "6">>

\* C11 witness: the defaults of a stock priced 170 and without market sizes,
\* with 1000 typed into currentSales, are the inputs of Scenario 1
C11_Witness ==
  /\ valuation = Scenario1
  /\ edits > 0
  /\ calculations.salesAtYearEnd = Fin(6436343, 3200)

\* the value the claim C13 gives the field f of the stock s: the persisted
\* one, or else the default
Hydrated(s, f) ==
  IF f \in DOMAIN s.valuation THEN s.valuation[f]
  ELSE IF f = "currentPrice" THEN s.currentPrice
  ELSE IF f \in {"tam", "sam"}
    THEN (IF f \in DOMAIN s.tam THEN s.tam[f] ELSE Num(0))
  ELSE [investmentHorizon |-> Num(5), currentSales |-> Num(0),
        salesGrowthCAGR |-> Num(15), netProfitMargin |-> Num(20),
        sharesOutstanding |-> Num(1000000), expectedPEAtYearEnd |-> Num(25),
        shareRepurchaseDividendIssue |-> Num(2), expectedReturn |-> Num(15),
        marginOfSafetyPercent |-> Num(25)][f]

\* C13: when the view is opened, and after every Reset (a step that changes
\* the inputs without an edit), each input is the persisted value of its
\* field if the stock has one and otherwise its default: the stock's current
\* price, the stock's TAM and SAM or 0, and the fixed defaults.
C13_OpenedAndResetHydrated ==
  /\ \A f \in Fields : valuation[f] = Hydrated(stock, f)
  /\ [][(valuation' # valuation /\ edits' = edits) =>
          \A f \in Fields : valuation'[f] = Hydrated(stock', f)]_vars

\* C13 witness: the view of a stock that persisted three fields was edited
\* and then reset (no Save changed the stock, and every edit moves an input
\* away from its hydrated value): it holds the persisted price 150, not the
\* stock's 170, the persisted tam 0, not the stock's 500, the stock's sam and
\* the fixed defaults
C13_Witness ==
  /\ edits > 0
  /\ stock \in OpenStocks
  /\ DOMAIN stock.valuation # {} /\ DOMAIN stock.valuation # Fields
  /\ valuation.currentPrice = Num(150) /\ stock.currentPrice = Num(170)
  /\ valuation.tam = Num(0) /\ valuation.sam = Num(200)
  /\ valuation.sharesOutstanding = Num(1000000)
  /\ \A f \in Fields : valuation[f] = Hydrated(stock, f)

\* C12: after any edits, resets and saves, the valuation a stock carries in
\* the store holds none of the 14 outputs and no field other than the 12
\* inputs, the record a Save of this view wrote holds exactly the 12 inputs,
\* and the outputs on display are recomputed from the current inputs.
C12_SaveStoresInputsOnly ==
  /\ DOMAIN stock.valuation \cap OutputFields = {}
  /\ DOMAIN stock.valuation \subseteq Fields
  /\ stock \notin Stocks => DOMAIN stock.valuation = Fields
  /\ calculations = Calculations(valuation)

\* C12 witness: edited inputs were saved and the stock carries them
C12_Witness ==
  /\ edits > 0
  /\ ~editing
  /\ stock \notin Stocks
  /\ stock.valuation = valuation
  /\ DOMAIN calculations = OutputFields

\* texts that hold no number at all
NonNumericTexts ==
  {<<>>, <<"-">>, <<".">>, <<"e", "5">>, <<"a", "b", "c">>, <<"N", "a", "N">>}

\* C14: after any edits every one of the 12 inputs is a finite number, never
\* NaN, and a text that holds no number (empty or non-numeric) is turned
\* into 0.
C14_InputsAreNumbers ==
  /\ \A f \in Fields : IsNumber(valuation[f]) /\ IsFinite(valuation[f])
  /\ \A t \in NonNumericTexts : OrZero(ParseFloat(t)) = ZERO

\* C14 witness: an input the stock holds a value other than 0 for was
\* emptied, and is 0
C14_Witness ==
  /\ edits > 0
  /\ stock \in Stocks
  /\ \E f \in Fields : IsZero(valuation[f]) /\ ~IsZero(initialValuation(stock)[f])
  /\ \A f \in Fields : IsFinite(valuation[f])

\* the placeholder for an undefined value: an em dash
Placeholder == <<"U+2014">>

\* C16 as claimed: an output that is NaN or an infinity is shown on screen
\* and written to the CSV export as the placeholder, not as a number.
C16_UndefinedShownAsPlaceholder ==
  \A o \in OutputFields :
    ~IsFinite(calculations[o]) =>
      /\ formatNumber(calculations[o], 2) = Placeholder
      /\ CsvCell(calculations, o) = Placeholder

\* C16, the weaker reading that any one placeholder text would satisfy: the
\* text shown for an undefined output does not tell NaN from an infinity.
C16_UndefinedShownAlike ==
  \A o, q \in OutputFields :
    (~IsFinite(calculations[o]) /\ ~IsFinite(calculations[q])) =>
      /\ formatNumber(calculations[o], 2) = formatNumber(calculations[q], 2)
      /\ CsvCell(calculations, o) = CsvCell(calculations, q)

\* C15 as claimed: a request authenticated as a user creates or changes only
\* rows of that user: every row a step creates or changes has that user as
\* its owner afterwards, and a row that existed had that user as its owner
\* before.
C15_RowIsolation ==
  [][\A i \in DOMAIN rows' :
       (i \notin DOMAIN rows \/ rows'[i] # rows[i]) =>
         /\ rows'[i].user_id = user'
         /\ i \in DOMAIN rows => rows[i].user_id = user']_vars


\* C17: once a valuation is stored for the stock, a save of another section
\* leaves the valuation a refetch returns unchanged, and a save of a
\* valuation leaves the TAM, SAM and SOM a refetch returns unchanged (the
\* section saves coming one after another).  The save of the business
\* overview writes the tam column anew from its three sizes, and the
\* valuation stored in that column is gone.
C17_ValuationAndSizesFramed ==
  [][/\ (fetchValuation(fetchRow(business_overviews)) # <<>> /\ ~WritingKind("valuation"))
          => fetchValuation(fetchRow(business_overviews')) =
               fetchValuation(fetchRow(business_overviews))
     /\ WritingKind("valuation")
          => fetchSizes(fetchRow(business_overviews')) =
               fetchSizes(fetchRow(business_overviews))]_vars

\* The half of C17 that the code keeps: a save of a valuation leaves the
\* stored TAM, SAM and SOM unchanged.
C17_ValuationSaveKeepsSizes ==
  [][WritingKind("valuation")
       => fetchSizes(fetchRow(business_overviews')) =
            fetchSizes(fetchRow(business_overviews))]_vars

\* C18: the story, the thinkForMarket and the tippingPoint are merged into
\* the one channel column: the write of a story save leaves the stored
\* thinkForMarket and tippingPoint unchanged, and the write of a business
\* overview save (thinkForMarket, tippingPoint) leaves the stored story
\* unchanged, whatever saves came before.
C18_ChannelMerged ==
  [][/\ WritingKind("story")
          => /\ fetchChannel(fetchRow(business_overviews'), "thinkForMarket") =
                  fetchChannel(fetchRow(business_overviews), "thinkForMarket")
             /\ fetchChannel(fetchRow(business_overviews'), "tippingPoint") =
                  fetchChannel(fetchRow(business_overviews), "tippingPoint")
     /\ WritingKind("overview")
          => fetchChannel(fetchRow(business_overviews'), "story") =
               fetchChannel(fetchRow(business_overviews), "story")]_vars

\* a story, a thinkForMarket and a tippingPoint have all been saved and are
\* all stored, no save being under way
C18_Witness ==
  /\ \A p \in Procs : saves[p] = IdleSave
  /\ business_overviews # NoRows
  /\ DOMAIN business_overviews[1].channel = {"story", "thinkForMarket", "tippingPoint"}

\* C19: whatever the interleaving of the section saves of one stock by one
\* user, there is at most one business_overviews row for them, so that every
\* save's data is in the row fetchStocks reads.  Two saves that both select
\* before either inserts both find no row and both insert.
C19_AtMostOneRow == Len(business_overviews) <= 1


\* C20: while enabled stays true, data that has changed and then stays as
\* it is is eventually saved: from some time on the latest call of onSave
\* had that data as its argument, or the data is the snapshot the hook holds
\* as saved.  A timer that fires while a call of onSave has not settled
\* returns at once, and nothing arms another for its data.
C20_LatestDataSaved ==
  \A d \in DataValues :
    <>[](enabled /\ data = d) => <>[](lastSaveArg = d \/ previousDataRef = d)


\* C21: at most one call of onSave is in flight at any time, and the flag
\* isSavingRef is set exactly while one is: a timer that fires during a call
\* starts no second one, and the flag is cleared when the call settles,
\* resolved or rejected.
C21_AtMostOneInFlight ==
  /\ Len(inFlight) <= 1
  /\ isSavingRef <=> inFlight # None

\* a timer has fired during a call of onSave: the call is for other data than
\* the data on screen, which differs from the snapshot, and no timer is left
C21_Witness ==
  /\ enabled /\ isSavingRef
  /\ timeoutRef = None
  /\ previousDataRef \notin {"", data}
  /\ Len(inFlight) = 1 /\ inFlight[1] # data


\* the step is a run of the effect that sets a timeout: the timer of the
\* ref is pending after it with its whole delay ahead (a tick leaves no such
\* timer), and no call of onSave starts or settles
SchedulesSave ==
  /\ timeoutRef' # None
  /\ timers'[Len(timers')].left = Delay
  /\ inFlight' = inFlight

\* C22: a run of the effect schedules a save only when the hook is enabled,
\* a snapshot has been recorded, and the serialized data differs from it: the
\* first enabled run (no snapshot yet) and a run with data equal to the
\* snapshot schedule nothing.  The timer is for the data of that run.
C22_SchedulesOnlyChangedData ==
  [][SchedulesSave =>
       /\ enabled'
       /\ previousDataRef # ""
       /\ data' # previousDataRef
       /\ timeoutRef' = <<data'>>]_vars

\* a change of the data has scheduled a save, after the first enabled run
\* recorded the initial data without scheduling one
C22_Witness ==
  /\ enabled
  /\ timeoutRef = <<data>>
  /\ previousDataRef \notin {"", data}
  /\ lastSaveArg = ""


\* a call of onSave starts in the step
OnSaveStarts == Len(inFlight') > Len(inFlight)

C24_SavedOnlyWhenWritten ==
  [][Len(inFlight') < Len(inFlight) =>
       IF inFlight[1] \in risks' THEN toast' = "Saved"
       ELSE toast' = "Save Failed"]_vars


\* C25: a save of periods that is over without its insert having succeeded
\* (the insert failed, or the call stopped before it) leaves the rows that
\* were stored when it began.  The rows are deleted before the new ones are
\* inserted, and nothing puts them back.
C25_FailedSaveKeepsRows ==
  [][(/\ finSave.pc # "idle" /\ finSave'.pc = "idle"
      /\ finSave.payload.financials # <<>>
      /\ ~finSave.inserted)
       => financials' = finSave.before]_vars

\* C26: after a save of the financials whose delete and insert both
\* succeeded, fetchStocks returns the periods as they were saved, every field
\* and every custom metric.  Only revenue, cost of revenue, net profit and
\* EPS are stored: operatingIncome comes back as 0, a grossProfit of 0 as the
\* revenue, and sharesOutstanding as 0 when netIncome is 0.
C26_FinancialsRoundTrip ==
  (finSave.pc = "fetch" /\ finSave.deleted /\ finSave.inserted)
    => fetchFinancials(financials) = finSave.payload.financials

\* The part of C26 the code keeps: the period, the revenue, the net income
\* and the value of a custom metric come back as saved.
C26_StoredFieldsRoundTrip ==
  (finSave.pc = "fetch" /\ finSave.deleted /\ finSave.inserted)
    => /\ Len(financials) = Len(finSave.payload.financials)
       /\ \A i \in DOMAIN financials :
            LET f == finSave.payload.financials[i]
                g == fetchFinancials(financials)[i]
            IN  /\ g.period = f.period /\ g.revenue = f.revenue
                /\ g.netIncome = f.netIncome
                /\ DOMAIN g = DOMAIN f
                /\ "cm" \in DOMAIN f => g.cm = f.cm

====
